---------------------------- MODULE Spec2Model ----------------------------
(***************************************************************************)
(* A model of blast_radius.py: BlastRadius.parse_terraform,                *)
(* BlastRadius._extract_dependencies and BlastRadius.generate_graph.       *)
(*                                                                         *)
(* Strings are sequences of tokens.  The characters '$', '{', '}' and '.'  *)
(* are tokens of their own; every other token is a run of characters that  *)
(* holds none of these four, so str.startswith, str.strip and the          *)
(* f-string concatenations of the source act on token sequences exactly as *)
(* they act on the characters.                                             *)
(*                                                                         *)
(* hcl2.loads is outside the repository: what it returns is an input.  A   *)
(* parsed document gives, for each of 'resource', 'data' and 'module', the *)
(* list the loops of parse_terraform iterate; an element is either of the  *)
(* shape the loop header unpacks or one on which the unpacking raises.     *)
(***************************************************************************)
EXTENDS Naturals, Sequences, FiniteSets, TLC

VARIABLES
    root,          \* the directory tree parse_terraform is given (input)
    pc,            \* position of the run
    raised,        \* the exception parse_terraform raised, or "none"
    searched,      \* whether path.rglob("*.tf") was evaluated
    visited,       \* the files whose loop body was entered, in order
    result,        \* the dictionary parse_terraform returned, or NoResult
    graph,         \* the graph generate_graph returned, or NoGraph
    config,        \* the argument of _extract_dependencies (input)
    dependencies,  \* the list _extract_dependencies returned, as a set
    argv,          \* the command line main is started with (input)
    args,          \* the Namespace parse_args returned, or NoArgs
    fs,            \* the file system beneath the working directory
    stdout,        \* what was printed to standard output, in order
    stderr,        \* what was printed to standard error, in order
    calls,         \* the methods and the server main has started, in order
    status,        \* the exit status of the process, or "running"
    self,          \* the fields graph_data and terraform_path of the BlastRadius
    returned,      \* what the last call or request handler returned
    served         \* the number of requests the server has handled

\* the state of a run of main
mainVars == <<argv, args, fs, stdout, stderr, calls, status, self, returned, served>>

vars == <<root, pc, raised, searched, visited, result, graph, config, dependencies,
          argv, args, fs, stdout, stderr, calls, status, self, returned, served>>

-----------------------------------------------------------------------------
(* Strings *)

\* "a" + "." + "b": the f-strings f"{a}.{b}" of parse_terraform
Join(a, b) == a \o <<".">> \o b

\* str.startswith(p)
startswith(s, p) == Len(s) >= Len(p) /\ SubSeq(s, 1, Len(p)) = p

\* str.startswith(tuple): any of the prefixes
startswith_any(s, prefixes) == \E p \in prefixes : startswith(s, p)

RECURSIVE lstrip(_, _)
lstrip(s, chars) ==
    IF s # <<>> /\ Head(s) \in chars THEN lstrip(Tail(s), chars) ELSE s

RECURSIVE rstrip(_, _)
rstrip(s, chars) ==
    IF s # <<>> /\ s[Len(s)] \in chars
    THEN rstrip(SubSeq(s, 1, Len(s) - 1), chars)
    ELSE s

\* str.strip(chars): drops leading and trailing characters of the set chars
strip(s, chars) == rstrip(lstrip(s, chars), chars)

\* the tuple ('${', 'data.', 'module.') of line 112
MarkerPrefixes == {<<"$", "{">>, <<"data", ".">>, <<"module", ".">>}

\* the tuple ('data.', 'module.') of line 115
RefPrefixes == {<<"data", ".">>, <<"module", ".">>}

\* the characters of '${}' of line 114
StripChars == {"$", "{", "}"}

-----------------------------------------------------------------------------
(* Parsed configuration values: what isinstance tells apart *)

Str(s)      == [tag |-> "str", s |-> s]
Scalar      == [tag |-> "scalar"]
Dict(items) == [tag |-> "dict", items |-> items]   \* items: <<key, value>> pairs
List(elems) == [tag |-> "list", elems |-> elems]

RECURSIVE extract_refs(_)
\* the dependencies the inner function extract_refs appends for obj
extract_refs(obj) ==
    IF obj.tag = "dict"
    THEN UNION { LET key   == obj.items[i][1]
                     value == obj.items[i][2]
                 IN  IF key = "source" /\ value.tag = "str"
                     THEN {value.s}
                     ELSE IF value.tag = "str" /\ startswith_any(value.s, MarkerPrefixes)
                     THEN LET ref == strip(value.s, StripChars)
                          IN  IF startswith_any(ref, RefPrefixes) THEN {ref} ELSE {}
                     ELSE IF value.tag \in {"dict", "list"}
                     THEN extract_refs(value)
                     ELSE {}
               : i \in DOMAIN obj.items }
    ELSE IF obj.tag = "list"
    THEN UNION { extract_refs(obj.elems[i]) : i \in DOMAIN obj.elems }
    ELSE {}

\* _extract_dependencies: list(set(dependencies)), a duplicate-free list in
\* no particular order, kept as the set of its elements
extract_dependencies(cfg) == extract_refs(cfg)

-----------------------------------------------------------------------------
(* Inputs of _extract_dependencies *)

\* nesting depth of the configuration bodies
MaxDepth == 2

FieldNames == {"source", "vpc_id"}

SampleStrings ==
    { <<"10.0.0.0/16">>,
      <<"$", "{", "aws_vpc", ".", "main", ".", "id", "}">>,
      <<"$", "{", "data", ".", "aws_ami", ".", "main", ".", "id", "}">>,
      <<"data", ".", "aws_ami", ".", "main">>,
      <<"module", ".", "vpc", ".", "id">>,
      <<"$", "{", "var", ".", "region", "}">> }

Leaves == {Str(s) : s \in SampleStrings} \cup {Scalar}

\* containers of strings: up to two entries
LeafDicts ==
    {Dict(<<>>)}
    \cup {Dict(<<<<k, v>>>>) : k \in FieldNames, v \in Leaves}
    \cup {Dict(<<<<k1, v1>>, <<k2, v2>>>>) :
            <<k1, k2>> \in {p \in FieldNames \X FieldNames : p[1] # p[2]},
            <<v1, v2>> \in {Str(s) : s \in SampleStrings} \X {Str(s) : s \in SampleStrings}}

LeafLists ==
    {List(<<>>)}
    \cup {List(<<v>>) : v \in Leaves}
    \cup {List(<<v1, v2>>) :
            <<v1, v2>> \in {Str(s) : s \in SampleStrings} \X {Str(s) : s \in SampleStrings}}

RECURSIVE Values(_)
\* the values of nesting depth at most d
Values(d) ==
    IF d = 0 THEN Leaves
    ELSE LET inner == Values(d - 1)
         IN  inner \cup LeafDicts \cup LeafLists
               \cup {Dict(<<<<k, v>>>>) : k \in FieldNames, v \in inner}
               \cup {List(<<v>>) : v \in inner}

Configs == {v \in Values(MaxDepth) : v.tag = "dict"}

-----------------------------------------------------------------------------
(* Sentinels *)

NoResult == [none |-> "result"]
NoGraph  == [none |-> "graph"]
NoRoot   == [none |-> "root"]
NoConfig == [none |-> "config"]
NoArgs   == [none |-> "args"]
NoArgv   == [none |-> "argv"]
NoReturn == [fn |-> "none"]
\* Python's None
None     == [none |-> "None"]

-----------------------------------------------------------------------------
(* parse_terraform *)

\* dict[k] = v
Put(f, k, v) == [x \in DOMAIN f \cup {k} |-> IF x = k THEN v ELSE f[x]]

\* A list element the loop header cannot unpack into two names (line 57, 58,
\* 70, 71 or 83 raises) carries ok = FALSE.
Malformed == [ok |-> FALSE]
Group(t, insts)   == [ok |-> TRUE, type |-> t, instances |-> insts]
Instance(n, c)    == [ok |-> TRUE, name |-> n, config |-> c]
ModuleBlock(n, c) == [ok |-> TRUE, name |-> n, config |-> c]

\* full_name of line 59
resource_full_name(resource_type, resource_name) == Join(resource_type, resource_name)

\* full_name of line 72
data_full_name(data_type, data_name) == <<"data", ".">> \o Join(data_type, data_name)

\* the key of line 84
module_key(module_name) == module_name

RECURSIVE instance_loop(_, _, _, _, _)
\* the inner loops of lines 58-66 and 71-79 over the instances of one type
instance_loop(kind, type, instances, file, st) ==
    IF instances = <<>> THEN st
    ELSE LET inst == Head(instances)
         IN  IF ~inst.ok THEN [st EXCEPT !.failed = TRUE]
             ELSE LET info == [type |-> type,
                               name |-> inst.name,
                               file |-> file,
                               config |-> inst.config,
                               dependencies |-> extract_dependencies(inst.config)]
                      st2 == IF kind = "resource"
                             THEN [st EXCEPT !.resources =
                                     Put(@, resource_full_name(type, inst.name), info)]
                             ELSE [st EXCEPT !.data_sources =
                                     Put(@, data_full_name(type, inst.name), info)]
                  IN  instance_loop(kind, type, Tail(instances), file, st2)

RECURSIVE group_loop(_, _, _, _)
\* the outer loops of lines 57 and 70; an exception leaves the loop at once
group_loop(kind, groups, file, st) ==
    IF groups = <<>> THEN st
    ELSE LET g == Head(groups)
         IN  IF ~g.ok THEN [st EXCEPT !.failed = TRUE]
             ELSE LET st2 == instance_loop(kind, g.type, g.instances, file, st)
                  IN  IF st2.failed THEN st2
                      ELSE group_loop(kind, Tail(groups), file, st2)

RECURSIVE module_loop(_, _, _)
\* the loop of lines 83-89
module_loop(blocks, file, st) ==
    IF blocks = <<>> THEN st
    ELSE LET b == Head(blocks)
         IN  IF ~b.ok THEN [st EXCEPT !.failed = TRUE]
             ELSE LET info == [name |-> b.name,
                               file |-> file,
                               config |-> b.config,
                               dependencies |-> extract_dependencies(b.config)]
                  IN  module_loop(Tail(blocks), file,
                                  [st EXCEPT !.modules = Put(@, module_key(b.name), info)])

\* the body of the try statement, lines 49-89, for one file; failed tells
\* whether it raised.  open, read and hcl2.loads raise before any record is
\* stored; a loop raises with the records stored so far kept.
process_file(f, st) ==
    IF f.status # "ok" THEN [st EXCEPT !.failed = TRUE]
    ELSE LET s1 == group_loop("resource", f.parsed.resource, f.name, st)
         IN  IF s1.failed THEN s1
             ELSE LET s2 == group_loop("data", f.parsed.data, f.name, s1)
                  IN  IF s2.failed THEN s2
                      ELSE module_loop(f.parsed.module, f.name, s2)

RECURSIVE file_loop_break(_, _)
\* file_loop with the handler leaving the loop instead of continuing
file_loop_break(tf_files, st) ==
    IF tf_files = <<>> THEN st
    ELSE LET f == Head(tf_files)
             s == process_file(f, [st EXCEPT !.failed = FALSE,
                                             !.visited = Append(@, f.name)])
         IN  IF s.failed THEN [s EXCEPT !.warned = Append(@, f.name)]
             ELSE file_loop_break(Tail(tf_files), s)

RECURSIVE file_loop(_, _)
\* the loop of lines 47-93: the handler of line 91 prints a warning and
\* continues with the next file
file_loop(tf_files, st) ==
    IF tf_files = <<>> THEN st
    ELSE LET f == Head(tf_files)
             s == process_file(f, [st EXCEPT !.failed = FALSE,
                                             !.visited = Append(@, f.name)])
         IN  file_loop(Tail(tf_files),
                       IF s.failed THEN [s EXCEPT !.warned = Append(@, f.name)] ELSE s)

\* lines 36-38
EmptyCollections ==
    [resources |-> <<>>, data_sources |-> <<>>, modules |-> <<>>,
     failed |-> FALSE, visited |-> <<>>, warned |-> <<>>]

\* path.rglob("*.tf"): the files beneath the root whose name ends in ".tf"
rglob(r) == SelectSeq(r.files, LAMBDA f : f.suffix = ".tf")

\* parse_terraform with the test of line 33 left out
parse_terraform_unchecked_path(r) ==
    LET tf_files == rglob(r)
    IN  IF tf_files = <<>>
        THEN [raised |-> "ValueError", searched |-> TRUE, visited |-> <<>>,
              warned |-> <<>>, result |-> NoResult]
        ELSE LET st == file_loop(tf_files, EmptyCollections)
             IN  [raised |-> "none", searched |-> TRUE, visited |-> st.visited,
                  warned |-> st.warned,
                  result |-> [resources |-> st.resources,
                              data_sources |-> st.data_sources,
                              modules |-> st.modules,
                              path |-> r.path]]

\* parse_terraform with the test of line 42 left out
parse_terraform_unchecked_files(r) ==
    IF ~r.exists
    THEN [raised |-> "FileNotFoundError", searched |-> FALSE, visited |-> <<>>,
          warned |-> <<>>, result |-> NoResult]
    ELSE LET st == file_loop(rglob(r), EmptyCollections)
         IN  [raised |-> "none", searched |-> TRUE, visited |-> st.visited,
              warned |-> st.warned,
              result |-> [resources |-> st.resources,
                          data_sources |-> st.data_sources,
                          modules |-> st.modules,
                          path |-> r.path]]

\* parse_terraform, lines 30-100: what it raises or returns, and what it
\* touched on the way
parse_terraform(r) ==
    IF ~r.exists
    THEN [raised |-> "FileNotFoundError", searched |-> FALSE, visited |-> <<>>,
          warned |-> <<>>, result |-> NoResult]
    ELSE LET tf_files == rglob(r)
         IN  IF tf_files = <<>>
             THEN [raised |-> "ValueError", searched |-> TRUE, visited |-> <<>>,
                   warned |-> <<>>, result |-> NoResult]
             ELSE LET st == file_loop(tf_files, EmptyCollections)
                  IN  [raised |-> "none", searched |-> TRUE, visited |-> st.visited,
                       warned |-> st.warned,
                       result |-> [resources |-> st.resources,
                                   data_sources |-> st.data_sources,
                                   modules |-> st.modules,
                                   path |-> r.path]]

-----------------------------------------------------------------------------
(* generate_graph *)

\* the keyword arguments of G.add_node, lines 132-136, 140-144 and 148-151
NodeAttrs(kind, key, info) ==
    IF kind = "module"
    THEN [type |-> kind, name |-> key, file |-> info.file]
    ELSE [type |-> kind, resource_type |-> info.type, name |-> info.name, file |-> info.file]

\* dict.update: networkx updates the attributes of a node it already holds
Update(old, new) ==
    [a \in DOMAIN old \cup DOMAIN new |-> IF a \in DOMAIN new THEN new[a] ELSE old[a]]

\* one loop of G.add_node over a collection (its keys are distinct, so the
\* order within the loop does not matter)
add_nodes(nodes, coll, kind) ==
    [n \in DOMAIN nodes \cup DOMAIN coll |->
        IF n \in DOMAIN coll
        THEN IF n \in DOMAIN nodes
             THEN Update(nodes[n], NodeAttrs(kind, n, coll[n]))
             ELSE NodeAttrs(kind, n, coll[n])
        ELSE nodes[n]]

\* lines 131-151
graph_nodes(data) ==
    add_nodes(add_nodes(add_nodes(<<>>, data.resources, "resource"),
                        data.data_sources, "data"),
              data.modules, "module")

\* one loop of lines 154-167 with the test "if dep in G.nodes" left out:
\* networkx's add_edge adds the endpoints it does not hold
add_edges_unguarded(nodes, coll) ==
    {<<dep, n>> : <<dep, n>> \in
        UNION {{<<d, k>> : d \in coll[k].dependencies} : k \in DOMAIN coll}}

\* one loop of lines 154-167 over a collection
add_edges(nodes, coll) ==
    {e \in UNION {{<<dep, n>> : dep \in coll[n].dependencies} : n \in DOMAIN coll} :
        e[1] \in DOMAIN nodes}

\* generate_graph, lines 126-169; an edge whose endpoint is no node yet makes
\* add_edge add that node, bare of attributes
generate_graph(data) ==
    LET nodes == graph_nodes(data)
        edges == add_edges(nodes, data.resources)
                   \cup add_edges(nodes, data.data_sources)
                   \cup add_edges(nodes, data.modules)
        added == {e[1] : e \in edges} \ DOMAIN nodes
    IN  [nodes |-> [n \in DOMAIN nodes \cup added |->
                      IF n \in DOMAIN nodes THEN nodes[n] ELSE <<>>],
         edges |-> edges]

-----------------------------------------------------------------------------
(* _get_node_color, _get_node_shape, _get_node_group and _graph_to_json *)

\* dict.get(key, default)
dict_get(d, key, default) == IF key \in DOMAIN d THEN d[key] ELSE default

\* the dictionary colors of lines 289-293
colors == [resource |-> "#4CAF50", data |-> "#2196F3", module |-> "#FF9800"]

\* the dictionary shapes of lines 298-302
shapes == [resource |-> "box", data |-> "ellipse", module |-> "diamond"]

\* the dictionary groups of lines 307-311
groups == [resource |-> 1, data |-> 2, module |-> 3]

\* _get_node_color with a default that is the colour of a resource
get_node_color_green_default(node_type) == dict_get(colors, node_type, "#4CAF50")

get_node_color(node_type) == dict_get(colors, node_type, "#9E9E9E")

get_node_shape(node_type) == dict_get(shapes, node_type, "box")

get_node_group(node_type) == dict_get(groups, node_type, 0)

RECURSIVE SetToSeq(_)
\* the elements of a finite set, each once, in an order
SetToSeq(S) ==
    IF S = {} THEN <<>>
    ELSE LET x == CHOOSE y \in S : TRUE IN <<x>> \o SetToSeq(S \ {x})

\* the dictionary appended for one node, lines 265-272
node_entry(node, attrs) ==
    [id            |-> node,
     name          |-> dict_get(attrs, "name", node),
     type          |-> dict_get(attrs, "type", "resource"),
     resource_type |-> dict_get(attrs, "resource_type", <<>>),
     file          |-> dict_get(attrs, "file", ""),
     group         |-> get_node_group(dict_get(attrs, "type", "resource"))]

\* the dictionary appended for one edge, lines 276-280
link_entry(edge) == [source |-> edge[1], target |-> edge[2], value |-> 1]

\* _graph_to_json with the ends of a link exchanged
graph_to_json_reversed(g) ==
    [nodes |-> [i \in DOMAIN SetToSeq(DOMAIN g.nodes) |->
                  node_entry(SetToSeq(DOMAIN g.nodes)[i],
                             g.nodes[SetToSeq(DOMAIN g.nodes)[i]])],
     links |-> [i \in DOMAIN SetToSeq(g.edges) |->
                  link_entry(<<SetToSeq(g.edges)[i][2], SetToSeq(g.edges)[i][1]>>)]]

\* _graph_to_json, lines 261-285: the two lists, in the order in which the
\* graph hands out its nodes and its edges
graph_to_json(g) ==
    [nodes |-> [i \in DOMAIN SetToSeq(DOMAIN g.nodes) |->
                  node_entry(SetToSeq(DOMAIN g.nodes)[i],
                             g.nodes[SetToSeq(DOMAIN g.nodes)[i]])],
     links |-> [i \in DOMAIN SetToSeq(g.edges) |->
                  link_entry(SetToSeq(g.edges)[i])]]

-----------------------------------------------------------------------------
(* Paths and the file system the exporters write to *)

\* a path is the sequence of its components; a component is a stem and a
\* suffix ("graph" and ".svg")
Name(stem, suffix) == [stem |-> stem, suffix |-> suffix]

\* f"{args.output}/index.html" and the like, read as a path
under(output, name) == Append(output, name)

\* Path.parent
parent(p) == SubSeq(p, 1, Len(p) - 1)

\* Path.with_suffix
with_suffix(p, suffix) == [p EXCEPT ![Len(p)].suffix = suffix]

\* p and the directories above it, up to the working directory
UpTo(p) == {SubSeq(p, 1, k) : k \in 1..Len(p)}

DirEntry == [kind |-> "dir"]
\* what a write that broke off leaves of the data
Truncated == [truncated |-> TRUE]
FileEntry(format, data) == [kind |-> "file", format |-> format, data |-> data]

is_dir(f, p)  == p \in DOMAIN f /\ f[p].kind = "dir"
is_file(f, p) == p \in DOMAIN f /\ f[p].kind = "file"

\* Path.mkdir(parents=True, exist_ok=True): raises when p or a directory
\* above it is a file, and then creates nothing
mkdir(f, p) ==
    IF \E q \in UpTo(p) : is_file(f, q)
    THEN [ok |-> FALSE, fs |-> f]
    ELSE [ok |-> TRUE,
          fs |-> [q \in DOMAIN f \cup UpTo(p) |-> IF q \in DOMAIN f THEN f[q] ELSE DirEntry]]

\* open(p, 'w') and the write: raises when p is a directory
write_file(f, p, entry) ==
    IF is_dir(f, p) THEN [ok |-> FALSE, fs |-> f]
    ELSE [ok |-> TRUE, fs |-> Put(f, p, entry)]

\* os.remove
remove(f, p) == [q \in DOMAIN f \ {p} |-> f[q]]

-----------------------------------------------------------------------------
(* The exporters.  An exporter is given the file system f and what its     *)
(* surroundings do to it: oc = "ok", "fail_early" (the directory cannot be  *)
(* created), "fail_late" (the file cannot be opened, the layout engine      *)
(* fails) or "fail_write" (the write breaks off).  It hands back whether it *)
(* raised, the file system it leaves and the path it returns.               *)

Outcomes == {"ok", "fail_early", "fail_late", "fail_write"}

Raise(exc, f) == [raised |-> exc, fs |-> f, value |-> NoReturn]
Return(f, value) == [raised |-> "none", fs |-> f, value |-> value]

\* export_html, lines 171-197: output_path is taken as a directory; static
\* tells whether the package has a directory 'static'
export_html(g, output_path, f, oc, static) ==
    LET output_dir  == output_path
        made        == mkdir(f, output_dir)
        copied      == IF static THEN mkdir(made.fs, under(output_dir, Name("static", "")))
                       ELSE made
        output_file == under(output_dir, Name("index", ".html"))
        written     == write_file(copied.fs, output_file,
                                  FileEntry("html", graph_to_json(g)))
    IN  IF oc = "fail_early" \/ ~made.ok THEN Raise("OSError", f)
        ELSE IF ~copied.ok THEN Raise("OSError", made.fs)
        ELSE IF oc = "fail_late" \/ ~written.ok THEN Raise("OSError", copied.fs)
        ELSE IF oc = "fail_write"
        THEN Raise("OSError", Put(copied.fs, output_file, FileEntry("html", Truncated)))
        ELSE Return(written.fs, output_file)

\* the graph description of lines 201-215 and 226-240
dot_source(g) ==
    [nodes |-> [n \in DOMAIN g.nodes |->
                  [label |-> dict_get(g.nodes[n], "name", n),
                   color |-> get_node_color(dict_get(g.nodes[n], "type", "resource")),
                   shape |-> get_node_shape(dict_get(g.nodes[n], "type", "resource")),
                   style |-> "filled"]],
     edges |-> g.edges]

\* dot.render(filename, format=..., cleanup=True), lines 221 and 246: the
\* description is saved as filename, the layout engine writes
\* filename + "." + format, and the description is removed; when the engine
\* fails the description stays
render(f, filename, format, data, oc) ==
    LET saved    == write_file(f, filename, FileEntry("dot", data))
        rendered == write_file(saved.fs, with_suffix(filename, "." \o format),
                               FileEntry(format, data))
    IN  IF ~saved.ok THEN [ok |-> FALSE, fs |-> f]
        ELSE IF oc \in {"fail_late", "fail_write"} \/ ~rendered.ok
        THEN [ok |-> FALSE, fs |-> saved.fs]
        ELSE [ok |-> TRUE, fs |-> remove(rendered.fs, filename)]

\* export_svg and export_png, lines 199-222 and 224-247
export_image(g, output_path, f, oc, format) ==
    LET output_file == output_path
        made        == mkdir(f, parent(output_file))
        rendered    == render(made.fs, with_suffix(output_file, ""), format,
                              dot_source(g), oc)
    IN  IF oc = "fail_early" \/ ~made.ok THEN Raise("OSError", f)
        ELSE IF ~rendered.ok THEN Raise("CalledProcessError", rendered.fs)
        ELSE Return(rendered.fs, with_suffix(output_file, "." \o format))

export_svg(g, output_path, f, oc) == export_image(g, output_path, f, oc, "svg")

export_png(g, output_path, f, oc) == export_image(g, output_path, f, oc, "png")

\* export_json, lines 249-259
export_json(g, output_path, f, oc) ==
    LET output_file == output_path
        made        == mkdir(f, parent(output_file))
        written     == write_file(made.fs, output_file,
                                  FileEntry("json", graph_to_json(g)))
    IN  IF oc = "fail_early" \/ ~made.ok THEN Raise("OSError", f)
        ELSE IF oc = "fail_late" \/ ~written.ok THEN Raise("OSError", made.fs)
        ELSE IF oc = "fail_write"
        THEN Raise("OSError", Put(made.fs, output_file, FileEntry("json", Truncated)))
        ELSE Return(written.fs, output_file)

-----------------------------------------------------------------------------
(* Inputs of _graph_to_json and of the three lookups *)

\* values of node_type: the three kinds and strings that are none of them
NodeTypes == {"resource", "data", "module", "unknown", "", "Resource", "data_source"}

NodeKeys == {<<"aws_vpc", ".", "main">>, <<"vpc">>}

\* the attribute dictionaries of a node: those generate_graph gives, one
\* with a kind that is none of the three, and those of nodes added without
\* a kind
NodeAttrSets ==
    { [type |-> "resource", resource_type |-> <<"aws_vpc">>, name |-> <<"main">>, file |-> "main.tf"],
      [type |-> "data", resource_type |-> <<"aws_ami">>, name |-> <<"main">>, file |-> "main.tf"],
      [type |-> "module", name |-> <<"vpc">>, file |-> "main.tf"],
      [type |-> "unknown", name |-> <<"x">>],
      [name |-> <<"bare">>],
      <<>> }

\* the directed graphs over NodeKeys
Graphs ==
    UNION { { [nodes |-> n, edges |-> e] :
                n \in [K -> NodeAttrSets], e \in SUBSET (K \X K) }
            : K \in SUBSET NodeKeys }

-----------------------------------------------------------------------------
(* Inputs of parse_terraform *)

\* blocks in the whole tree
MaxBlocks == 2

ResourceTypes == {<<"aws_vpc">>, <<"aws_subnet">>}
DataTypes     == {<<"aws_ami">>}
InstanceNames == {<<"main">>}
\* a block label is a quoted string: it may hold a dot
ModuleNames   == {<<"vpc">>, <<"aws_vpc", ".", "main">>}

\* block bodies: one attribute each
BlockConfigs ==
    { Dict(<<<<"cidr_block", Str(<<"10.0.0.0/16">>)>>>>),
      Dict(<<<<"vpc_id", Str(<<"$", "{", "aws_vpc", ".", "main", ".", "id", "}">>)>>>>),
      Dict(<<<<"ami", Str(<<"$", "{", "data", ".", "aws_ami", ".", "main", ".", "id", "}">>)>>>>),
      Dict(<<<<"ami", Str(<<"data", ".", "aws_ami", ".", "main">>)>>>>),
      Dict(<<<<"subnets", Str(<<"$", "{", "module", ".", "vpc", ".", "subnets", "}">>)>>>>),
      Dict(<<<<"source", Str(<<"./modules/vpc">>)>>>>),
      Dict(<<<<"source", Str(<<"vpc">>)>>>>) }

ResourceGroups ==
    {Group(t, <<Instance(n, c)>>) : t \in ResourceTypes, n \in InstanceNames, c \in BlockConfigs}
    \cup {Group(t, <<Malformed>>) : t \in ResourceTypes}
    \cup {Malformed}

DataGroups ==
    {Group(t, <<Instance(n, c)>>) : t \in DataTypes, n \in InstanceNames, c \in BlockConfigs}
    \cup {Group(t, <<Malformed>>) : t \in DataTypes}
    \cup {Malformed}

ModuleBlocks ==
    {ModuleBlock(n, c) : n \in ModuleNames, c \in BlockConfigs} \cup {Malformed}

EmptyDoc == [resource |-> <<>>, data |-> <<>>, module |-> <<>>]

\* the parsed documents of k blocks
DocsOfSize(k) ==
    UNION { {[resource |-> r, data |-> d, module |-> m] :
                r \in [1..p[1] -> ResourceGroups],
                d \in [1..p[2] -> DataGroups],
                m \in [1..(k - p[1] - p[2]) -> ModuleBlocks]}
            : p \in {q \in (0..k) \X (0..k) : q[1] + q[2] <= k} }

DocSize(doc) == Len(doc.resource) + Len(doc.data) + Len(doc.module)

\* the parsed documents of at most b blocks, for every b up to MaxBlocks
DocsUpTo == [b \in 0..MaxBlocks |-> UNION {DocsOfSize(k) : k \in 0..b}]

\* a .tf file: one that open, read or hcl2.loads fails on, or one that parses
TfFiles(name, budget) ==
    {[name |-> name, suffix |-> ".tf", status |-> "error", parsed |-> EmptyDoc]}
    \cup {[name |-> name, suffix |-> ".tf", status |-> "ok", parsed |-> d] :
            d \in DocsUpTo[budget]}

\* a file that "*.tf" does not match
OtherFile == [name |-> "README.md", suffix |-> ".md", status |-> "ok", parsed |-> EmptyDoc]

FirstFiles == TfFiles("main.tf", MaxBlocks) \cup {OtherFile}

SecondFiles(f) == TfFiles("network.tf", MaxBlocks - DocSize(f.parsed))

MissingRoot == [exists |-> FALSE, path |-> "infra", files |-> <<>>]

Directory(files) == [exists |-> TRUE, path |-> "infra", files |-> files]

\* no run of main: BlastRadius.__init__ has set both fields to None
MainIdle ==
    /\ argv = NoArgv
    /\ args = NoArgs
    /\ fs = <<>>
    /\ stdout = <<>>
    /\ stderr = <<>>
    /\ calls = <<>>
    /\ status = "running"
    /\ self = [graph_data |-> None, terraform_path |-> None]
    /\ returned = NoReturn
    /\ served = 0

-----------------------------------------------------------------------------
(* main: the command line, and the steps of lines 654-695 *)

\* the requests the server handles in a run
MaxRequests == 2

DefaultOutput == <<Name("output", "")>>
GivenOutput   == <<Name("diagrams", "")>>

\* the choices of --format, line 648
FormatChoices == {"html", "svg", "png", "json", "all"}

\* command lines: the positional path given or not, the two flags, --format
\* absent ("") or given, with a choice or with another word, --output absent
\* or given
Argvs ==
    [path : BOOLEAN, serve : BOOLEAN, export : BOOLEAN,
     format : FormatChoices \cup {"", "pdf"}, output : BOOLEAN]

\* parser.parse_args(), lines 645-654: ok = FALSE when argparse rejects the
\* command line (it prints the usage to standard error and exits with 2)
parse_args(av) ==
    IF ~av.path \/ av.format \notin FormatChoices \cup {""}
    THEN [ok |-> FALSE]
    ELSE [ok     |-> TRUE,
          path   |-> "infra",
          serve  |-> av.serve,
          export |-> av.export,
          format |-> IF av.format = "" THEN "html" ELSE av.format,
          output |-> IF av.output THEN GivenOutput ELSE DefaultOutput,
          host   |-> "127.0.0.1",
          port   |-> 5000]

\* a file with a resource, a data source and a module that names the data
\* source
SampleFile ==
    [name |-> "main.tf", suffix |-> ".tf", status |-> "ok",
     parsed |->
       [resource |-> <<Group(<<"aws_vpc">>,
                             <<Instance(<<"main">>,
                                        Dict(<<<<"cidr_block", Str(<<"10.0.0.0/16">>)>>>>))>>)>>,
        data     |-> <<Group(<<"aws_ami">>,
                             <<Instance(<<"main">>,
                                        Dict(<<<<"owner", Str(<<"self">>)>>>>))>>)>>,
        module   |-> <<ModuleBlock(<<"vpc">>,
                                   Dict(<<<<"ami", Str(<<"data", ".", "aws_ami", ".", "main">>)>>>>))>>]]

\* a file hcl2.loads fails on
BrokenFile == [name |-> "broken.tf", suffix |-> ".tf", status |-> "error", parsed |-> EmptyDoc]

\* the trees main is run on
MainRoots ==
    { MissingRoot,
      Directory(<<>>),
      Directory(<<BrokenFile>>),
      Directory(<<SampleFile>>),
      Directory(<<BrokenFile, SampleFile>>) }

\* what an earlier program left in the default output directory
OldFile == FileEntry("old", Truncated)

\* the file system at the start: nothing, a directory 'output' with files of
\* the four names, or a directory 'output' that holds a directory
\* 'index.html'
InitialFs ==
    { <<>>,
      (DefaultOutput :> DirEntry)
        @@ (under(DefaultOutput, Name("index", ".html")) :> OldFile)
        @@ (under(DefaultOutput, Name("graph", ".svg")) :> OldFile)
        @@ (under(DefaultOutput, Name("graph", ".json")) :> OldFile),
      (DefaultOutput :> DirEntry)
        @@ (under(DefaultOutput, Name("index", ".html")) :> DirEntry) }

\* main's local variables html_file, svg_file, png_file, json_file and
\* output_file: the path each exporter returned
exported_paths == IF returned.fn = "main" THEN returned.value ELSE <<>>

-----------------------------------------------------------------------------
(* Spec: parse_terraform, then generate_graph on what it returned *)

Init ==
    /\ \/ root = MissingRoot
       \/ root = Directory(<<>>)
       \/ \E f \in FirstFiles :
            \/ root = Directory(<<f>>)
            \/ \E g \in SecondFiles(f) : root = Directory(<<f, g>>)
    /\ pc = "start"
    /\ raised = "none"
    /\ searched = FALSE
    /\ visited = <<>>
    /\ result = NoResult
    /\ graph = NoGraph
    /\ config = NoConfig
    /\ dependencies = {}
    /\ MainIdle

\* the caller's view of a call that raised or returned out
Returns(out) ==
    /\ raised' = out.raised
    /\ searched' = out.searched
    /\ visited' = out.visited
    /\ result' = out.result
    /\ pc' = IF out.raised = "none" THEN "parsed" ELSE "raised"

ParseTerraform ==
    /\ pc = "start"
    /\ Returns(parse_terraform(root))
    /\ UNCHANGED <<root, graph, config, dependencies>>
    /\ UNCHANGED mainVars

GenerateGraph ==
    /\ pc = "parsed"
    /\ graph' = generate_graph(result)
    /\ pc' = "graphed"
    /\ UNCHANGED <<root, raised, searched, visited, result, config, dependencies>>
    /\ UNCHANGED mainVars

Next == ParseTerraform \/ GenerateGraph

Spec == Init /\ [][Next]_vars

-----------------------------------------------------------------------------
(* SpecExtract: _extract_dependencies applied to one configuration body *)

InitExtract ==
    /\ config \in Configs
    /\ pc = "extract_call"
    /\ dependencies = {}
    /\ root = NoRoot
    /\ raised = "none"
    /\ searched = FALSE
    /\ visited = <<>>
    /\ result = NoResult
    /\ graph = NoGraph
    /\ MainIdle

ExtractDependencies ==
    /\ pc = "extract_call"
    /\ dependencies' = extract_dependencies(config)
    /\ pc' = "extract_done"
    /\ UNCHANGED <<root, raised, searched, visited, result, graph, config>>
    /\ UNCHANGED mainVars

NextExtract == ExtractDependencies

SpecExtract == InitExtract /\ [][NextExtract]_vars

-----------------------------------------------------------------------------
(* SpecJson: the methods that read a graph or a node type, called on a     *)
(* BlastRadius in any order                                                *)

InitJson ==
    /\ graph \in Graphs
    /\ pc = "object"
    /\ root = NoRoot
    /\ raised = "none"
    /\ searched = FALSE
    /\ visited = <<>>
    /\ result = NoResult
    /\ config = NoConfig
    /\ dependencies = {}
    /\ MainIdle

\* a call that only returns a value
Call(fn, arg, value) ==
    /\ returned' = [fn |-> fn, arg |-> arg, value |-> value]
    /\ UNCHANGED <<root, pc, raised, searched, visited, result, graph, config, dependencies>>
    /\ UNCHANGED <<argv, args, fs, stdout, stderr, calls, status, self, served>>

GraphToJson ==
    /\ pc = "object"
    /\ Call("_graph_to_json", graph, graph_to_json(graph))

GetNodeColor ==
    /\ pc = "object"
    /\ \E t \in NodeTypes : Call("_get_node_color", t, get_node_color(t))

GetNodeShape ==
    /\ pc = "object"
    /\ \E t \in NodeTypes : Call("_get_node_shape", t, get_node_shape(t))

GetNodeGroup ==
    /\ pc = "object"
    /\ \E t \in NodeTypes : Call("_get_node_group", t, get_node_group(t))

NextJson == GraphToJson \/ GetNodeColor \/ GetNodeShape \/ GetNodeGroup

SpecJson == InitJson /\ [][NextJson]_vars

-----------------------------------------------------------------------------
(* SpecMain: one run of main, from the command line to the exit status,    *)
(* with the requests the server handles while it runs                       *)

InitMain ==
    /\ argv \in Argvs
    /\ root \in MainRoots
    /\ fs \in InitialFs
    /\ pc = "main"
    /\ args = NoArgs
    /\ raised = "none"
    /\ searched = FALSE
    /\ visited = <<>>
    /\ result = NoResult
    /\ graph = NoGraph
    /\ config = NoConfig
    /\ dependencies = {}
    /\ stdout = <<>>
    /\ stderr = <<>>
    /\ calls = <<>>
    /\ status = "running"
    /\ self = [graph_data |-> None, terraform_path |-> None]
    /\ returned = NoReturn
    /\ served = 0

Line(msg, about) == [msg |-> msg, about |-> about]

\* line 654: argparse ends the process with status 2 when it rejects the
\* command line
ParseArgs ==
    /\ pc = "main"
    /\ IF parse_args(argv).ok
       THEN /\ args' = parse_args(argv)
            /\ pc' = "try"
            /\ UNCHANGED <<stderr, status>>
       ELSE /\ stderr' = Append(stderr, Line("usage", argv))
            /\ status' = 2
            /\ pc' = "exited"
            /\ UNCHANGED args
    /\ UNCHANGED <<root, raised, searched, visited, result, graph, config, dependencies>>
    /\ UNCHANGED <<argv, fs, stdout, calls, self, returned, served>>

\* lines 657-661 and 690-691: the object is built and the mode is chosen
Dispatch ==
    /\ pc = "try"
    /\ self' = [graph_data |-> None, terraform_path |-> None]
    /\ IF args.serve
       THEN pc' = "serve" /\ UNCHANGED stdout
       ELSE IF args.export
       THEN pc' = "export" /\ UNCHANGED stdout
       ELSE pc' = "return" /\ stdout' = Append(stdout, Line("help", "usage"))
    /\ UNCHANGED <<root, raised, searched, visited, result, graph, config, dependencies>>
    /\ UNCHANGED <<argv, args, fs, stderr, calls, status, returned, served>>

\* what parse_terraform prints, lines 45 and 92
parse_prints(out) ==
    IF out.raised # "none" THEN <<>>
    ELSE <<Line("Found Terraform files", Len(out.visited))>>
           \o [i \in DOMAIN out.warned |-> Line("Warning: Error parsing", out.warned[i])]

\* the caller's view of parse_terraform and, when it returned, of
\* generate_graph
Parses(out) ==
    /\ raised' = out.raised
    /\ searched' = out.searched
    /\ visited' = out.visited
    /\ result' = out.result
    /\ graph' = IF out.raised = "none" THEN generate_graph(out.result) ELSE graph

\* serve that calls app.run before it has set graph_data
ServeBuilt_unassigned(out) ==
    /\ Parses(out)
    /\ UNCHANGED self
    /\ IF out.raised = "none"
       THEN /\ calls' = calls \o <<"serve", "parse_terraform", "generate_graph", "_graph_to_json">>
            /\ stdout' = Append(stdout, Line("Parsing Terraform configuration from", args.path))
            /\ pc' = "serve_run"
       ELSE /\ calls' = calls \o <<"serve", "parse_terraform">>
            /\ stdout' = Append(stdout, Line("Parsing Terraform configuration from", args.path))
            /\ pc' = "except"

\* serve up to the call of app.run, lines 601-612, given what
\* parse_terraform did
ServeBuilt(out) ==
    /\ Parses(out)
    /\ IF out.raised = "none"
       THEN /\ self' = [graph_data |-> graph_to_json(generate_graph(out.result)),
                        terraform_path |-> args.path]
            /\ calls' = calls \o <<"serve", "parse_terraform", "generate_graph", "_graph_to_json">>
            /\ stdout' = stdout \o <<Line("Parsing Terraform configuration from", args.path)>>
                            \o parse_prints(out)
                            \o <<Line("Generated graph", Cardinality(DOMAIN generate_graph(out.result).nodes)),
                                 Line("Starting web server at", args.port)>>
            /\ pc' = "serve_run"
       ELSE /\ calls' = calls \o <<"serve", "parse_terraform">>
            /\ stdout' = Append(stdout, Line("Parsing Terraform configuration from", args.path))
            /\ pc' = "except"
            /\ UNCHANGED self

ServeBuild ==
    /\ pc = "serve"
    /\ ServeBuilt(parse_terraform(root))
    /\ UNCHANGED <<root, config, dependencies>>
    /\ UNCHANGED <<argv, args, fs, stderr, status, returned, served>>

\* lines 614-629: the routes are registered and app.run is called; it
\* raises when the server cannot be started
AppRun ==
    /\ pc = "serve_run"
    /\ calls' = Append(calls, "app.run")
    /\ \E started \in BOOLEAN :
          IF started THEN pc' = "serving" /\ UNCHANGED raised
          ELSE pc' = "except" /\ raised' = "OSError"
    /\ UNCHANGED <<root, searched, visited, result, graph, config, dependencies>>
    /\ UNCHANGED <<argv, args, fs, stdout, stderr, status, self, returned, served>>

\* a request handler that answers with response
Handles(fn, response) ==
    /\ served < MaxRequests
    /\ served' = served + 1
    /\ returned' = [fn |-> fn, value |-> response]
    /\ UNCHANGED <<root, pc, raised, searched, visited, result, graph, config, dependencies>>
    /\ UNCHANGED <<argv, args, fs, stdout, stderr, calls, status, self>>

Response(code, body) == [status |-> code, body |-> body]

\* index, lines 615-617: the template may be missing
Index ==
    /\ pc = "serving"
    /\ \E found \in BOOLEAN :
          Handles("index", IF found THEN Response(200, self.graph_data)
                           ELSE Response(500, None))

\* api_graph, lines 619-621
ApiGraph ==
    /\ pc = "serving"
    /\ Handles("api_graph", Response(200, self.graph_data))

\* static_files, lines 623-626
StaticFiles ==
    /\ pc = "serving"
    /\ \E found \in BOOLEAN :
          Handles("static_files", Response(IF found THEN 200 ELSE 404, None))

\* app.run returns when the server is stopped
ServerStop ==
    /\ pc = "serving"
    /\ pc' = "return"
    /\ UNCHANGED <<root, raised, searched, visited, result, graph, config, dependencies>>
    /\ UNCHANGED mainVars

\* the exporter main calls first, lines 666-687
FirstExport(format) == IF format = "all" THEN "export_html" ELSE "export_" \o format

\* lines 662-664, given what parse_terraform did
ExportParsed(out) ==
    /\ Parses(out)
    /\ stdout' = stdout \o <<Line("Parsing Terraform configuration from", args.path)>>
                    \o parse_prints(out)
    /\ IF out.raised = "none"
       THEN /\ calls' = calls \o <<"parse_terraform", "generate_graph">>
            /\ pc' = FirstExport(args.format)
       ELSE /\ calls' = Append(calls, "parse_terraform")
            /\ pc' = "except"

ExportParse ==
    /\ pc = "export"
    /\ ExportParsed(parse_terraform(root))
    /\ UNCHANGED <<root, config, dependencies>>
    /\ UNCHANGED <<argv, args, fs, stderr, status, self, returned, served>>

\* the exporter main calls after the one of format fmt, or the print
NextExport(fmt) ==
    IF args.format # "all" THEN "export_print"
    ELSE IF fmt = "html" THEN "export_svg"
    ELSE IF fmt = "svg" THEN "export_png"
    ELSE IF fmt = "png" THEN "export_json"
    ELSE "export_print"

\* main after an exporter that is left by an exception goes on with the
\* next exporter
after_export_continue(fmt, r) ==
    /\ calls' = Append(calls, "export_" \o fmt)
    /\ fs' = r.fs
    /\ IF r.raised # "none"
       THEN /\ pc' = NextExport(fmt)
            /\ UNCHANGED <<raised, returned>>
       ELSE /\ returned' = [fn |-> "main", value |-> Put(exported_paths, fmt, r.value)]
            /\ pc' = NextExport(fmt)
            /\ UNCHANGED raised

\* main after an exporter that is left by an exception removes what the
\* exporters of this run have written
after_export_rollback(fmt, r) ==
    /\ calls' = Append(calls, "export_" \o fmt)
    /\ IF r.raised # "none"
       THEN /\ raised' = r.raised
            /\ fs' = [q \in {x \in DOMAIN r.fs : \A k \in DOMAIN exported_paths :
                                                     exported_paths[k] # x} |-> r.fs[q]]
            /\ pc' = "except"
            /\ UNCHANGED returned
       ELSE /\ returned' = [fn |-> "main", value |-> Put(exported_paths, fmt, r.value)]
            /\ fs' = r.fs
            /\ pc' = NextExport(fmt)
            /\ UNCHANGED raised

\* the call of one exporter in main, lines 668-671 and 681-687, given what
\* the exporter did: an exception leaves the try statement
after_export(fmt, r) ==
    /\ calls' = Append(calls, "export_" \o fmt)
    /\ fs' = r.fs
    /\ IF r.raised # "none"
       THEN /\ raised' = r.raised
            /\ pc' = "except"
            /\ UNCHANGED returned
       ELSE /\ returned' = [fn |-> "main", value |-> Put(exported_paths, fmt, r.value)]
            /\ pc' = NextExport(fmt)
            /\ UNCHANGED raised

\* lines 668 and 681
ExportHtml ==
    /\ pc = "export_html"
    /\ \E oc \in Outcomes, static \in BOOLEAN :
          after_export("html", export_html(graph, under(args.output, Name("index", ".html")),
                                           fs, oc, static))
    /\ UNCHANGED <<root, searched, visited, result, graph, config, dependencies>>
    /\ UNCHANGED <<argv, args, stdout, stderr, status, self, served>>

\* lines 669 and 683
ExportSvg ==
    /\ pc = "export_svg"
    /\ \E oc \in Outcomes :
          after_export("svg", export_svg(graph, under(args.output, Name("graph", ".svg")),
                                         fs, oc))
    /\ UNCHANGED <<root, searched, visited, result, graph, config, dependencies>>
    /\ UNCHANGED <<argv, args, stdout, stderr, status, self, served>>

\* lines 670 and 685
ExportPng ==
    /\ pc = "export_png"
    /\ \E oc \in Outcomes :
          after_export("png", export_png(graph, under(args.output, Name("graph", ".png")),
                                         fs, oc))
    /\ UNCHANGED <<root, searched, visited, result, graph, config, dependencies>>
    /\ UNCHANGED <<argv, args, stdout, stderr, status, self, served>>

\* lines 671 and 687
ExportJson ==
    /\ pc = "export_json"
    /\ \E oc \in Outcomes :
          after_export("json", export_json(graph, under(args.output, Name("graph", ".json")),
                                           fs, oc))
    /\ UNCHANGED <<root, searched, visited, result, graph, config, dependencies>>
    /\ UNCHANGED <<argv, args, stdout, stderr, status, self, served>>

\* lines 673-677 and 689
ExportPrint ==
    /\ pc = "export_print"
    /\ stdout' = stdout \o
          (IF args.format = "all"
           THEN <<Line("Exported all formats to", args.output),
                  Line("HTML:", exported_paths["html"]),
                  Line("SVG:", exported_paths["svg"]),
                  Line("PNG:", exported_paths["png"]),
                  Line("JSON:", exported_paths["json"])>>
           ELSE <<Line("Exported to:", exported_paths[args.format])>>)
    /\ pc' = "return"
    /\ UNCHANGED <<root, raised, searched, visited, result, graph, config, dependencies>>
    /\ UNCHANGED <<argv, args, fs, stderr, calls, status, self, returned, served>>

\* the handler with the status of a run that ended well
except_status_zero(exc) ==
    /\ stderr' = Append(stderr, Line("Error:", exc))
    /\ status' = 0

\* lines 693-695
except_handler(exc) ==
    /\ stderr' = Append(stderr, Line("Error:", exc))
    /\ status' = 1

Except ==
    /\ pc = "except"
    /\ except_handler(raised)
    /\ pc' = "exited"
    /\ UNCHANGED <<root, raised, searched, visited, result, graph, config, dependencies>>
    /\ UNCHANGED <<argv, args, fs, stdout, calls, self, returned, served>>

\* main returns and the interpreter ends with status 0
Return0 ==
    /\ pc = "return"
    /\ status' = 0
    /\ pc' = "exited"
    /\ UNCHANGED <<root, raised, searched, visited, result, graph, config, dependencies>>
    /\ UNCHANGED <<argv, args, fs, stdout, stderr, calls, self, returned, served>>

NextMain ==
    \/ ParseArgs \/ Dispatch
    \/ ServeBuild \/ AppRun \/ Index \/ ApiGraph \/ StaticFiles \/ ServerStop
    \/ ExportParse \/ ExportHtml \/ ExportSvg \/ ExportPng \/ ExportJson \/ ExportPrint
    \/ Except \/ Return0

SpecMain == InitMain /\ [][NextMain]_vars

-----------------------------------------------------------------------------
(* What the claims speak of *)

Parsed == pc \in {"parsed", "graphed"}

Collections == {"resources", "data_sources", "modules"}

AllKeys ==
    DOMAIN result.resources \cup DOMAIN result.data_sources \cup DOMAIN result.modules

\* the records of the result, each with its collection and key
Records == {<<c, k>> \in Collections \X AllKeys : k \in DOMAIN result[c]}

\* how a configuration refers to a record: T.N, data.T.N, module.N
ReferenceName(c, k) ==
    IF c = "modules" THEN <<"module", ".">> \o result[c][k].name
    ELSE IF c = "data_sources"
    THEN <<"data", ".">> \o Join(result[c][k].type, result[c][k].name)
    ELSE Join(result[c][k].type, result[c][k].name)

RECURSIVE StringsIn(_, _)
\* every string of a structure, with the field that holds it ("" for an
\* element of a sequence)
StringsIn(obj, field) ==
    IF obj.tag = "str" THEN {<<field, obj.s>>}
    ELSE IF obj.tag = "dict"
    THEN UNION {StringsIn(obj.items[i][2], obj.items[i][1]) : i \in DOMAIN obj.items}
    ELSE IF obj.tag = "list"
    THEN UNION {StringsIn(obj.elems[i], "") : i \in DOMAIN obj.elems}
    ELSE {}

\* s names ref or an attribute of ref, behind a recognized prefix
RefersTo(s, ref) ==
    /\ startswith_any(s, MarkerPrefixes)
    /\ LET body == strip(s, StripChars)
       IN  body = ref \/ startswith(body, ref \o <<".">>)

References(cfg, ref) == \E p \in StringsIn(cfg, "") : RefersTo(p[2], ref)

endswith(s, suffix) ==
    Len(s) >= Len(suffix) /\ SubSeq(s, Len(s) - Len(suffix) + 1, Len(s)) = suffix

\* whether the try body raises for file f
Fails(f) == process_file(f, EmptyCollections).failed

\* what file f alone stores in collection c before it ends or raises
Stored(f, c) == process_file(f, EmptyCollections)[c]

TfFilesOfRoot == rglob(root)

-----------------------------------------------------------------------------
(* C1 *)

\* C1: whenever the body of record B holds a string that refers to record A
\* through a recognized prefix, the graph built from the parse result holds
\* both as nodes and the edge (A, B).
C1_ReferenceYieldsEdge ==
    pc = "graphed" =>
        \A a \in Records, b \in Records :
            ( /\ a # b
              /\ References(result[b[1]][b[2]].config, ReferenceName(a[1], a[2])) ) =>
                /\ a[2] \in DOMAIN graph.nodes
                /\ b[2] \in DOMAIN graph.nodes
                /\ <<a[2], b[2]>> \in graph.edges

-----------------------------------------------------------------------------
(* C2 *)

\* C2: every record is stored under its qualified name: data.T.N for a data
\* source, module.N for a module, a key ending in T.N for a resource.
C2_KeysAreQualifiedNames ==
    Parsed =>
        /\ \A k \in DOMAIN result.data_sources :
              k = <<"data", ".">> \o Join(result.data_sources[k].type,
                                          result.data_sources[k].name)
        /\ \A k \in DOMAIN result.modules :
              k = <<"module", ".">> \o result.modules[k].name
        /\ \A k \in DOMAIN result.resources :
              endswith(k, Join(result.resources[k].type, result.resources[k].name))

-----------------------------------------------------------------------------
(* C3 *)

\* C3: when one file declares resources A and B and the attribute of B is a
\* reference to an attribute of A, both are keys of the resources mapping
\* and the dependencies of B are exactly [A].
C3_ResourceReferenceIsDependency ==
    Parsed =>
        \A f \in {TfFilesOfRoot[i] : i \in DOMAIN TfFilesOfRoot} :
            ~Fails(f) =>
                /\ DOMAIN Stored(f, "resources") \subseteq DOMAIN result.resources
                /\ \A a \in DOMAIN Stored(f, "resources"), b \in DOMAIN Stored(f, "resources") :
                      ( /\ a # b
                        /\ result.resources[b].file = f.name
                        /\ References(result.resources[b].config, a) )
                      => result.resources[b].dependencies = {a}

-----------------------------------------------------------------------------
(* C4 *)

\* the list the two rules give: (a) a string held by a field named source,
\* verbatim; (b) a string that begins with a marker or a reference prefix,
\* stripped, when what is left begins with a reference prefix
RuleDependencies(cfg) ==
    {p[2] : p \in {q \in StringsIn(cfg, "") : q[1] = "source"}}
    \cup {strip(p[2], StripChars) :
            p \in {q \in StringsIn(cfg, "") :
                     /\ startswith_any(q[2], MarkerPrefixes)
                     /\ startswith_any(strip(q[2], StripChars), RefPrefixes)}}

\* C4: _extract_dependencies returns exactly what the two rules give for the
\* strings of the body, mapping values and sequence elements alike.
C4_ExactlyTheTwoRules ==
    pc = "extract_done" => dependencies = RuleDependencies(config)

-----------------------------------------------------------------------------
(* C5 *)

\* C5: a file whose processing raised leaves no trace: the collections are
\* those of the same tree without the files that raised.
C5_FailedFileLeavesNoTrace ==
    Parsed =>
        LET kept  == SelectSeq(TfFilesOfRoot, LAMBDA f : ~Fails(f))
            clean == file_loop(kept, EmptyCollections)
        IN  /\ result.resources = clean.resources
            /\ result.data_sources = clean.data_sources
            /\ result.modules = clean.modules

-----------------------------------------------------------------------------
(* C6 *)

FileCount == Len(TfFilesOfRoot)

\* the last file that stores key k in collection c, 0 when none does
LastWriter(c, k) ==
    LET writers == {i \in 1..FileCount : k \in DOMAIN Stored(TfFilesOfRoot[i], c)}
    IN  IF writers = {} THEN 0
        ELSE CHOOSE i \in writers : \A j \in writers : j <= i

\* C6: with a root that exists and holds a .tf file, parse_terraform returns
\* whatever the files do: every file is visited, in order, and every key a
\* file stores is in the result with the record of the last file storing it,
\* also when earlier files raised.
C6_FileFailureIsContained ==
    (pc # "start" /\ root.exists /\ FileCount > 0) =>
        /\ Parsed
        /\ raised = "none"
        /\ result # NoResult
        /\ visited = [i \in 1..FileCount |-> TfFilesOfRoot[i].name]
        /\ \A c \in Collections :
              /\ DOMAIN result[c] =
                    UNION {DOMAIN Stored(TfFilesOfRoot[i], c) : i \in 1..FileCount}
              /\ \A k \in DOMAIN result[c] :
                    result[c][k] = Stored(TfFilesOfRoot[LastWriter(c, k)], c)[k]

\* a file raised and the file after it put its record into the result
C6_Witness ==
    /\ pc = "parsed"
    /\ FileCount = 2
    /\ Fails(TfFilesOfRoot[1])
    /\ ~Fails(TfFilesOfRoot[2])
    /\ \E k \in DOMAIN result.resources : result.resources[k].file = TfFilesOfRoot[2].name

-----------------------------------------------------------------------------
(* C7 *)

\* C7: for a root that does not exist parse_terraform raises
\* FileNotFoundError before it searches for files or opens one, and returns
\* nothing.
C7_MissingRootRaises ==
    (pc # "start" /\ ~root.exists) =>
        /\ pc = "raised"
        /\ raised = "FileNotFoundError"
        /\ ~searched
        /\ visited = <<>>
        /\ result = NoResult
        /\ graph = NoGraph

C7_Witness == pc = "raised" /\ ~root.exists

-----------------------------------------------------------------------------
(* C8 *)

\* C8: for a root that exists and holds no .tf file parse_terraform raises
\* ValueError and returns nothing.
C8_NoTerraformFilesRaises ==
    (pc # "start" /\ root.exists /\ \A i \in DOMAIN root.files : root.files[i].suffix # ".tf") =>
        /\ pc = "raised"
        /\ raised = "ValueError"
        /\ visited = <<>>
        /\ result = NoResult
        /\ graph = NoGraph

\* a directory that holds a file, though none that "*.tf" matches
C8_Witness == pc = "raised" /\ root.exists /\ root.files # <<>>

-----------------------------------------------------------------------------
(* C9 *)

\* the dependencies of the records that are no key of any record
Dangling ==
    UNION {result[r[1]][r[2]].dependencies : r \in Records} \ AllKeys

\* C9: both ends of every edge are keys of the collections, every node is
\* one, and a dependency that is no key is neither an end of an edge nor a
\* node.
C9_NoDanglingEdge ==
    pc = "graphed" =>
        /\ \A e \in graph.edges : e[1] \in AllKeys /\ e[2] \in AllKeys
        /\ DOMAIN graph.nodes \subseteq AllKeys
        /\ \A d \in Dangling :
              /\ d \notin DOMAIN graph.nodes
              /\ \A e \in graph.edges : e[1] # d /\ e[2] # d

\* a graph with an edge, built from records of which one names a dependency
\* that no record has as its key
C9_Witness ==
    /\ pc = "graphed"
    /\ Dangling # {}
    /\ graph.edges # {}

-----------------------------------------------------------------------------
(* C10 *)

KindOf(c) ==
    IF c = "resources" THEN "resource" ELSE IF c = "data_sources" THEN "data" ELSE "module"

\* C10: the graph has one node per record, which carries the kind, the
\* declared type and the file of its record, and exactly the edges from a
\* dependency that is a key to the record that names it.
C10_OneNodePerRecord ==
    pc = "graphed" =>
        /\ Cardinality(DOMAIN graph.nodes) =
              Cardinality(DOMAIN result.resources)
                + Cardinality(DOMAIN result.data_sources)
                + Cardinality(DOMAIN result.modules)
        /\ \A r \in Records :
              /\ r[2] \in DOMAIN graph.nodes
              /\ graph.nodes[r[2]].type = KindOf(r[1])
              /\ graph.nodes[r[2]].file = result[r[1]][r[2]].file
              /\ r[1] # "modules" =>
                    graph.nodes[r[2]].resource_type = result[r[1]][r[2]].type
        /\ graph.edges =
              {e \in AllKeys \X AllKeys :
                 \E c \in Collections :
                    e[2] \in DOMAIN result[c] /\ e[1] \in result[c][e[2]].dependencies}

-----------------------------------------------------------------------------
(* C11 *)

\* the kind of a node of the graph, "" when it has none
KindOfNode(g, n) == IF "type" \in DOMAIN g.nodes[n] THEN g.nodes[n].type ELSE ""

\* the group the claim gives a kind
GroupOfKind(kind) ==
    IF kind = "resource" THEN 1
    ELSE IF kind = "data" THEN 2
    ELSE IF kind = "module" THEN 3
    ELSE 0

\* one entry per node and one link per edge, each link from the dependency
\* to the dependent with value 1
OneEntryEach(g, j) ==
    /\ Len(j.nodes) = Cardinality(DOMAIN g.nodes)
    /\ \A n \in DOMAIN g.nodes :
          Cardinality({i \in DOMAIN j.nodes : j.nodes[i].id = n}) = 1
    /\ Len(j.links) = Cardinality(g.edges)
    /\ \A e \in g.edges :
          Cardinality({i \in DOMAIN j.links :
                          j.links[i].source = e[1] /\ j.links[i].target = e[2]}) = 1
    /\ \A i \in DOMAIN j.links : j.links[i].value = 1

\* C11 as stated: the structure _graph_to_json returns has one entry per node
\* and one link per edge; an entry has the key of its node as id, the kind of
\* the node as type, and the group of that kind, 0 for a node with another
\* kind or with none; a link goes from the dependency to the dependent.
C11_JsonMirrorsGraph ==
    returned.fn = "_graph_to_json" =>
        /\ OneEntryEach(graph, returned.value)
        /\ \A i \in DOMAIN returned.value.nodes :
              LET entry == returned.value.nodes[i]
                  kind  == KindOfNode(graph, entry.id)
              IN  /\ kind # "" => entry.type = kind
                  /\ entry.group = GroupOfKind(kind)

\* C11 amended: as C11, but a node without a kind gets the type 'resource'
\* and with it the group 1; only a kind that is present and none of the
\* three gives the group 0.
C11_JsonMirrorsGraphDefaultKind ==
    returned.fn = "_graph_to_json" =>
        /\ OneEntryEach(graph, returned.value)
        /\ \A i \in DOMAIN returned.value.nodes :
              LET entry == returned.value.nodes[i]
                  kind  == KindOfNode(graph, entry.id)
              IN  /\ entry.type = (IF "type" \in DOMAIN graph.nodes[entry.id]
                                   THEN kind ELSE "resource")
                  /\ entry.group = (IF "type" \in DOMAIN graph.nodes[entry.id]
                                    THEN GroupOfKind(kind) ELSE 1)

\* the structure of a graph with an edge between two nodes, one of them
\* without a kind and one of a kind that is none of the three
C11_Witness ==
    /\ returned.fn = "_graph_to_json"
    /\ \E a \in DOMAIN graph.nodes, b \in DOMAIN graph.nodes :
          /\ "type" \notin DOMAIN graph.nodes[a]
          /\ KindOfNode(graph, b) = "unknown"
          /\ <<a, b>> \in graph.edges
          /\ <<b, a>> \notin graph.edges

-----------------------------------------------------------------------------
(* C17 *)

Lookups == {"_get_node_color", "_get_node_shape", "_get_node_group"}

\* the value the claim gives for a lookup and a kind
TableValue(fn, kind) ==
    IF fn = "_get_node_color"
    THEN (IF kind = "resource" THEN "#4CAF50"
          ELSE IF kind = "data" THEN "#2196F3"
          ELSE IF kind = "module" THEN "#FF9800"
          ELSE "#9E9E9E")
    ELSE IF fn = "_get_node_shape"
    THEN (IF kind = "resource" THEN "box"
          ELSE IF kind = "data" THEN "ellipse"
          ELSE IF kind = "module" THEN "diamond"
          ELSE "box")
    ELSE GroupOfKind(kind)

\* C17: each of the three lookups returns, for every kind, the value of the
\* table (the default for a kind that is none of the three), and a call of
\* one changes neither the BlastRadius nor the graph.
C17_LookupsAreTotal ==
    /\ [](returned.fn \in Lookups => returned.value = TableValue(returned.fn, returned.arg))
    /\ [][returned'.fn \in Lookups => UNCHANGED <<self, graph, fs, stdout, stderr>>]_vars

\* the colour of a kind that is none of the three was asked for
C17_Witness ==
    /\ returned.fn = "_get_node_color"
    /\ returned.arg \notin {"resource", "data", "module"}

-----------------------------------------------------------------------------
(* What the claims about main speak of *)

Formats == <<"html", "svg", "png", "json">>

\* the exporters main has started, in order, by their format
ExportCalls ==
    LET started == SelectSeq(calls, LAMBDA c : c \in {"export_" \o Formats[i] : i \in 1..4})
    IN  [i \in DOMAIN started |->
            CHOOSE fmt \in {Formats[k] : k \in 1..4} : started[i] = "export_" \o fmt]

\* the exporters args.format asks for, in the order of the claim
Requested == IF args.format = "all" THEN Formats ELSE <<args.format>>

\* an exporter was started and did not return
ExportFailed ==
    \E i \in DOMAIN ExportCalls : ExportCalls[i] \notin DOMAIN exported_paths

\* the success summary of lines 673-677 or the line of 689 is on standard
\* output
SummaryPrinted ==
    \E i \in DOMAIN stdout : stdout[i].msg \in {"Exported all formats to", "Exported to:"}

\* the file the claim names for a format
ArtifactPath(fmt) ==
    under(args.output, IF fmt = "html" THEN Name("index", ".html")
                       ELSE Name("graph", "." \o fmt))

\* what the exporter of a format writes for the graph
ArtifactOf(fmt) ==
    FileEntry(fmt, IF fmt \in {"html", "json"} THEN graph_to_json(graph)
                   ELSE dot_source(graph))

-----------------------------------------------------------------------------
(* C12 *)

\* C12: every exporter that returned has written its artifact as the file
\* <output>/index.html (html), <output>/graph.svg, <output>/graph.png or
\* <output>/graph.json, directly in the output directory, and the path it
\* returned, which main prints, is that file.
C12_ArtifactsUnderFixedNames ==
    /\ \A fmt \in DOMAIN exported_paths :
          /\ exported_paths[fmt] = ArtifactPath(fmt)
          /\ is_file(fs, ArtifactPath(fmt))
          /\ fs[ArtifactPath(fmt)] = ArtifactOf(fmt)
    /\ \A i \in DOMAIN stdout :
          /\ stdout[i].msg = "Exported to:" => stdout[i].about = ArtifactPath(args.format)
          /\ stdout[i].msg = "HTML:" => stdout[i].about = ArtifactPath("html")
          /\ stdout[i].msg = "SVG:" => stdout[i].about = ArtifactPath("svg")
          /\ stdout[i].msg = "PNG:" => stdout[i].about = ArtifactPath("png")
          /\ stdout[i].msg = "JSON:" => stdout[i].about = ArtifactPath("json")

-----------------------------------------------------------------------------
(* C13 *)

\* C13: the exporters are started in the order html, svg, png, json, each at
\* most once; once one has failed it is the last one started, the run ends
\* with the error on standard error and status 1, and the summary is printed
\* only when every exporter asked for has returned.
C13_FirstFailureIsFatal ==
    ExportCalls # <<>> =>
        /\ Len(ExportCalls) <= Len(Requested)
        /\ \A i \in DOMAIN ExportCalls : ExportCalls[i] = Requested[i]
        /\ ExportFailed =>
              /\ ExportCalls[Len(ExportCalls)] \notin DOMAIN exported_paths
              /\ \A i \in 1..(Len(ExportCalls) - 1) : ExportCalls[i] \in DOMAIN exported_paths
              /\ pc \in {"except", "exited"}
              /\ raised # "none"
              /\ ~SummaryPrinted
              /\ pc = "exited" => status = 1 /\ stderr = <<Line("Error:", raised)>>
        /\ SummaryPrinted =>
              /\ ExportCalls = Requested
              /\ \A i \in DOMAIN Requested : Requested[i] \in DOMAIN exported_paths

\* with --format all, html and svg were exported, png failed, and the run
\* ended
C13_Witness ==
    /\ pc = "exited"
    /\ args # NoArgs
    /\ args.format = "all"
    /\ ExportCalls = <<"html", "svg", "png">>
    /\ DOMAIN exported_paths = {"html", "svg"}

-----------------------------------------------------------------------------
(* C14 *)

Count(seq, x) == Cardinality({i \in DOMAIN seq : seq[i] = x})

\* the structure of the graph of the tree main was given
Snapshot == graph_to_json(generate_graph(parse_terraform(root).result))

\* C14: while the server runs, the snapshot has been computed once, from the
\* one parse, and is set; what api_graph returns is that snapshot, whatever
\* was requested before; no request changes the snapshot; and after a parse
\* that raised, app.run is never called.
C14_SnapshotBuiltOnce ==
    /\ []( /\ (pc = "serving" \/ served > 0) =>
                /\ Count(calls, "parse_terraform") = 1
                /\ Count(calls, "_graph_to_json") = 1
                /\ self.graph_data # None
                /\ self.graph_data = Snapshot
           /\ returned.fn = "api_graph" =>
                /\ returned.value.body # None
                /\ returned.value.body = Snapshot
           /\ ("serve" \in {calls[i] : i \in DOMAIN calls}
                 /\ raised \in {"FileNotFoundError", "ValueError"}) =>
                /\ Count(calls, "app.run") = 0
                /\ served = 0 )
    /\ [][served' # served => self' = self]_vars

\* api_graph answered the second request of a run
C14_Witness ==
    /\ served = 2
    /\ returned.fn = "api_graph"
    /\ Len(returned.value.body.links) > 0

-----------------------------------------------------------------------------
(* C15 *)

\* neither flag given: the help text, no parsing, no export, status 0
HelpOnly ==
    /\ status = 0
    /\ stdout = <<Line("help", "usage")>>
    /\ calls = <<>>
    /\ fs \in InitialFs

\* C15 as stated: main ends with status 1 and one line on standard error
\* when parsing, graph building, exporting or serving raised, and with 0 in
\* every other case; with neither flag it prints the help, parses and
\* exports nothing and ends with 0.
C15_ExitStatus ==
    pc = "exited" =>
        /\ status = (IF raised # "none" THEN 1 ELSE 0)
        /\ raised # "none" => stderr = <<Line("Error:", raised)>>
        /\ (~argv.serve /\ ~argv.export) => HelpOnly

\* C15 amended: a command line argparse rejects (no path, or a --format that
\* is no choice) ends with status 2 and the usage on standard error, nothing
\* parsed or exported; for a command line it accepts, the claim holds.
C15_ExitStatusOfAcceptedCommandLine ==
    pc = "exited" =>
        IF ~parse_args(argv).ok
        THEN /\ status = 2
             /\ stderr = <<Line("usage", argv)>>
             /\ stdout = <<>>
             /\ calls = <<>>
             /\ fs \in InitialFs
        ELSE /\ status = (IF raised # "none" THEN 1 ELSE 0)
             /\ raised # "none" => stderr = <<Line("Error:", raised)>>
             /\ raised = "none" => stderr = <<>>
             /\ (~argv.serve /\ ~argv.export) => HelpOnly

\* an export run in which parse_terraform raised ValueError and which ended
\* with status 1
C15_Witness ==
    /\ pc = "exited"
    /\ status = 1
    /\ raised = "ValueError"
    /\ calls = <<"parse_terraform">>

-----------------------------------------------------------------------------
(* C16 *)

\* C16: no run both serves and exports, and a run given both flags does
\* neither: it starts no server, parses nothing and writes no file.
C16_ModesExclude ==
    /\ ~(Count(calls, "serve") > 0 /\ ExportCalls # <<>>)
    /\ (argv # NoArgv /\ argv.serve /\ argv.export) =>
          /\ Count(calls, "serve") = 0
          /\ Count(calls, "parse_terraform") = 0
          /\ Count(calls, "app.run") = 0
          /\ ExportCalls = <<>>

-----------------------------------------------------------------------------
(* C18 *)

\* C18: when an exporter has failed and the run has ended, with status 1,
\* every artifact an earlier exporter of the run returned is still the file
\* it wrote, and the output directory is still there.
C18_FailedRunKeepsArtifacts ==
    (pc = "exited" /\ ExportFailed) =>
        /\ status = 1
        /\ \A fmt \in DOMAIN exported_paths :
              /\ is_file(fs, exported_paths[fmt])
              /\ fs[exported_paths[fmt]] = ArtifactOf(fmt)
              /\ is_dir(fs, args.output)

\* with --format all the run ended on the failure of the third exporter
\* with two artifacts written
C18_Witness ==
    /\ pc = "exited"
    /\ status = 1
    /\ ExportFailed
    /\ Len(ExportCalls) = 3
    /\ Cardinality(DOMAIN exported_paths) = 2

=============================================================================
